---- MODULE Spec2Model ----
(***************************************************************************)
(* Model of speed-test-rs, src/src/lib.rs: the SpeedTest engine, its hook  *)
(* registry (add_events_hook) and one or more runs of                      *)
(* measure_download_speed, each await point and each hook call one step.   *)
(* The network (discovery endpoint, HEAD probes, GET streams), the         *)
(* monotonic clock, the hooks' behaviour and the build profile are the     *)
(* environment: every outcome they can produce is drawn with \E.           *)
(***************************************************************************)
EXTENDS Integers, Sequences, FiniteSets, TLC

(***************************************************************************)
(* Bounds of the model.                                                    *)
(***************************************************************************)
\* u64 is modelled with U64Bits bits instead of 64: TLC's integers are 32 bit.
U64Bits == 2
\* most targets a discovery response lists
MaxTargets == 2
\* most hooks registered on one engine
MaxHooks == 2
\* most chunks a run's body streams deliver in total
MaxChunks == 2

U64_MAX == 2 ^ U64Bits - 1

\* the name field of an error whose message carries no target name
NoName == ""

\* the names the discovery endpoint gives its targets
TargetNames == <<"A", "B", "C", "D">>

(***************************************************************************)
(* State.                                                                  *)
(***************************************************************************)
VARIABLES
    hooks,      \* SpeedTest.hooks: the registered hooks, in registration order
    targets,    \* SpeedTest.targets: "None" or a sequence of Target
    client,     \* SpeedTest.client: "None" or "Some"
    target_download_information, \* the local snapshot of the run in flight
    clock,      \* now.elapsed(): monotonic time since `let now`
    tick,       \* how far the clock advances between two readings of the run
    pc,         \* position of the run in measure_download_speed
    ti,         \* index of `target` in the loop over targets
    hi,         \* index of `hook` in the loop over self.hooks
    result,     \* what the last call returned: none yet, Ok, Err or a panic
    response,   \* setup_api's `response`: the status of the discovery response
    trace,      \* what the run in flight did: requests, responses, hook calls
    chunks,     \* chunks delivered so far in this run
    overflow_checks \* the build's overflow checks: "on" (debug profile: an
                \* overflowing += panics), "off" (release profile: it wraps),
                \* "unknown" until the first overflow of the process shows which

vars == <<hooks, targets, client, target_download_information, clock, tick, pc, ti, hi,
          result, response, trace, chunks, overflow_checks>>

\* #[derive(Default)] of TargetDownloadInformation
Default == [bytes_downloaded |-> 0, total_bytes |-> 0, time_elapsed |-> 0]

\* Target as the engine uses it: name (error messages) and url (requests)
Target(i) == [name |-> TargetNames[i], url |-> i]

\* the discovery response's target list of n entries
TargetList(n) == [i \in 1..n |-> Target(i)]

\* no call has returned yet, or the call in flight has not
NoResult ==
    [status |-> "none", value |-> Default, error |-> [kind |-> "none", names |-> NoName]]

\* Ok(target_download_information)
Ok(v) == [status |-> "ok", value |-> v, error |-> [kind |-> "none", names |-> NoName]]

\* an error of the HTTP library carried out by `?`: its message is the library's
TransportError(kind) ==
    [status |-> "err", value |-> Default, error |-> [kind |-> kind, names |-> NoName]]

\* mutant of ContentLengthError: the message does not carry the target's name
ContentLengthErrorUnnamed(target) ==
    [status |-> "err", value |-> Default,
     error |-> [kind |-> "content_length", names |-> NoName]]

\* format!("Could not read content-length from {}", target.name)
ContentLengthError(target) ==
    [status |-> "err", value |-> Default,
     error |-> [kind |-> "content_length", names |-> target.name]]

\* a panic unwinding out of measure_download_speed
Panic(kind) ==
    [status |-> "panic", value |-> Default, error |-> [kind |-> kind, names |-> NoName]]

\* a + b overflows u64
Overflows(a, b) == a + b > U64_MAX

\* what a += b shows of the build's overflow checks: nothing unless it overflows
OverflowChecks(a, b) ==
    IF ~Overflows(a, b) THEN {overflow_checks}
    ELSE IF overflow_checks = "unknown" THEN {"on", "off"}
    ELSE {overflow_checks}

\* u64 += in a build without overflow checks
WrappingAdd(a, b) == (a + b) % (2 ^ U64Bits)

\* one entry of the run's trace
\* one entry of the run's trace: the call of measure_download_speed (val: the
\* hooks registered then), a response of the network (who: the target's index,
\* val: the length it carries) or a call of a hook (who: the hook, snap: the
\* snapshot passed to it)
Entry(kind, who, val) ==
    [kind |-> kind, who |-> who, val |-> val, snap |-> target_download_information]

Init ==
    /\ hooks = << >>
    /\ targets = "None"
    /\ client = "None"
    /\ target_download_information = Default
    /\ clock = 0
    /\ tick = 0
    /\ pc = "idle"
    /\ ti = 1
    /\ hi = 1
    /\ result = NoResult
    /\ response = "none"
    /\ trace = << >>
    /\ chunks = 0
    /\ overflow_checks = "unknown"

\* the run ends with r: the future completes (or unwinds)
Return(r) ==
    /\ result' = r
    /\ pc' = "idle"

\* add_events_hook: push the hook (&mut self: no run is in flight; a panic is
\* taken to end the program's use of the engine)
add_events_hook ==
    /\ pc = "idle"
    /\ result.status # "panic"
    /\ Len(hooks) < MaxHooks
    /\ hooks' = Append(hooks, Len(hooks) + 1)
    /\ UNCHANGED <<targets, client, target_download_information, clock, tick, pc, ti, hi,
                   result, response, trace, chunks, overflow_checks>>

\* mutant of measure_download_speed: the snapshot is kept from the run before
measure_download_speed_stale ==
    /\ pc = "idle"
    /\ result.status # "panic"
    /\ trace' = <<[kind |-> "measure_download_speed", who |-> 0, val |-> Len(hooks),
                    snap |-> Default]>>
    /\ chunks' = 0
    /\ clock' = 0
    /\ tick' = 0
    /\ ti' = 1
    /\ hi' = 1
    /\ \E built \in BOOLEAN :
          IF built
          THEN /\ pc' = "setup_api"
               /\ result' = NoResult
          ELSE Return(TransportError("client"))
    /\ UNCHANGED <<hooks, targets, client, target_download_information, response,
                   overflow_checks>>

\* measure_download_speed, lines 86-87: build the HTTP client, default snapshot
measure_download_speed ==
    /\ pc = "idle"
    /\ result.status # "panic"
    /\ target_download_information' = Default
    /\ trace' = <<[kind |-> "measure_download_speed", who |-> 0, val |-> Len(hooks),
                    snap |-> Default]>>
    /\ chunks' = 0
    /\ clock' = 0
    /\ tick' = 0
    /\ ti' = 1
    /\ hi' = 1
    /\ \E built \in BOOLEAN :
          IF built
          THEN /\ pc' = "setup_api"
               /\ result' = NoResult
          ELSE Return(TransportError("client"))
    /\ UNCHANGED <<hooks, targets, client, response, overflow_checks>>

\* what a discovery response can list: 0..MaxTargets targets
DiscoveryLists == {TargetList(n) : n \in 0..MaxTargets}

\* setup_api, line 148 first await: reqwest::get(&url).await? ; the response's
\* status is not looked at
setup_api ==
    /\ pc = "setup_api"
    /\ \/ \* no response
          /\ trace' = Append(trace, Entry("discovery_failed", 0, 0))
          /\ Return(TransportError("discovery"))
          /\ UNCHANGED response
       \/ \E status \in {"success", "non_success"} :
             /\ response' = status
             /\ trace' = Append(trace, Entry("discovery", 0, 0))
             /\ pc' = "json"
             /\ UNCHANGED result
    /\ UNCHANGED <<hooks, targets, client, target_download_information, clock, tick, ti, hi,
                   chunks, overflow_checks>>

\* setup_api, line 148 second await and lines 150-153: the body parsed as
\* {client, targets} and stored; back in measure_download_speed, line 91
json ==
    /\ pc = "json"
    /\ response' = "none"
    /\ \/ \* the body does not parse: .json::<Response>().await? fails
          /\ trace' = Append(trace, Entry("discovery_unparsable", 0, 0))
          /\ Return(TransportError("discovery"))
          /\ UNCHANGED <<targets, client, ti, hi>>
       \/ \E list \in DiscoveryLists :
             /\ trace' = Append(trace, Entry("discovery_parsed", 0, Len(list)))
             /\ client' = "Some"
             /\ targets' = list
             /\ ti' = 1
             /\ hi' = 1
             /\ pc' = IF Len(list) >= 1 THEN "head" ELSE "on_download"
             /\ UNCHANGED result
    /\ UNCHANGED <<hooks, target_download_information, clock, tick, chunks, overflow_checks>>

\* the content lengths a HEAD response can report (any u64): a small one and
\* one past half the range, so that sums both fit and overflow
ContentLengths == {1, U64_MAX - 1}

\* target_download_information.total_bytes += content_length
AddTotalBytes(info, content_length) ==
    [info EXCEPT !.total_bytes = WrappingAdd(@, content_length)]

\* lines 93-96: client.head(&target.url).send().await? fails
HeadFailed ==
    /\ trace' = Append(trace, Entry("head_failed", ti, 0))
    /\ Return(TransportError("head"))
    /\ UNCHANGED <<target_download_information, ti, hi, overflow_checks>>

\* mutant of HeadNoLength: a missing content length is skipped (counted as 0)
\* and the probe loop goes on
HeadNoLengthSkipped ==
    /\ trace' = Append(trace, Entry("head_no_length", ti, 0))
    /\ ti' = ti + 1
    /\ hi' = 1
    /\ pc' = IF ti + 1 <= Len(targets) THEN "head" ELSE "on_download"
    /\ UNCHANGED <<target_download_information, result, overflow_checks>>

\* lines 97-98: the response has no content length: ok_or_else(..)? returns
HeadNoLength ==
    /\ trace' = Append(trace, Entry("head_no_length", ti, 0))
    /\ Return(ContentLengthError(targets[ti]))
    /\ UNCHANGED <<target_download_information, ti, hi, overflow_checks>>

\* line 99: the content length is added to total_bytes; then the next target,
\* or after the last one the hooks' on_download
HeadLength(content_length) ==
    /\ trace' = Append(trace, Entry("head", ti, content_length))
    /\ \E checks \in OverflowChecks(target_download_information.total_bytes,
                                     content_length) :
          /\ overflow_checks' = checks
          /\ IF checks = "on"
             THEN /\ Return(Panic("overflow"))
                  /\ UNCHANGED <<target_download_information, ti, hi>>
             ELSE /\ target_download_information' =
                         AddTotalBytes(target_download_information, content_length)
                  /\ ti' = ti + 1
                  /\ hi' = 1
                  /\ pc' = IF ti + 1 <= Len(targets) THEN "head" ELSE "on_download"
                  /\ UNCHANGED result

\* the probe loop, lines 92-100: HEAD of targets[ti], its content length summed
head ==
    /\ pc = "head"
    /\ ti <= Len(targets)
    /\ \/ HeadFailed
       \/ HeadNoLength
       \/ \E content_length \in ContentLengths : HeadLength(content_length)
    /\ UNCHANGED <<hooks, targets, client, clock, tick, response, chunks>>

\* hook.write().<op>(&target_download_information): the hook is called with the
\* snapshot as it is now, and returns or panics
CallHook(op, then) ==
    /\ hi <= Len(hooks)
    /\ trace' = Append(trace, Entry(op, hooks[hi], 0))
    /\ \E panics \in BOOLEAN :
          IF panics
          THEN /\ Return(Panic("hook"))
               /\ UNCHANGED hi
          ELSE /\ hi' = hi + 1
               /\ pc' = IF hi + 1 <= Len(hooks) THEN pc ELSE then
               /\ UNCHANGED result

\* mutant of on_download: the loop over the hooks is left out
on_download_skipped ==
    /\ pc = "on_download"
    /\ hi <= Len(hooks)
    /\ hi' = Len(hooks) + 1
    /\ pc' = "now"
    /\ UNCHANGED <<hooks, targets, client, target_download_information, clock, tick, ti,
                   result, response, trace, chunks, overflow_checks>>

\* lines 102-104: on_download to every hook
on_download ==
    /\ pc = "on_download"
    /\ CallHook("on_download", "now")
    /\ UNCHANGED <<hooks, targets, client, target_download_information, clock, tick, ti,
                   response, chunks, overflow_checks>>

\* the clock's pace against the run's, drawn once per run: readings of one
\* Instant never go back; either all readings of the run are equal (the run is
\* faster than the clock's resolution) or each is later than the one before
Ticks == {0, 1}

\* line 106: let now = Instant::now() (also reached with no hook registered)
now ==
    /\ \/ pc = "now"
       \/ pc = "on_download" /\ Len(hooks) = 0
    /\ clock' = 0
    /\ tick' \in Ticks
    /\ ti' = 1
    /\ pc' = "get"
    /\ UNCHANGED <<hooks, targets, client, target_download_information, hi, result,
                   response, trace, chunks, overflow_checks>>

\* mutant of get: a failed GET is passed over and the next target is requested
get_failed_skipped ==
    /\ pc = "get"
    /\ ti <= Len(targets)
    /\ \/ /\ trace' = Append(trace, Entry("get_failed", ti, 0))
          /\ ti' = ti + 1
          /\ UNCHANGED <<pc, result>>
       \/ /\ trace' = Append(trace, Entry("get", ti, 0))
          /\ pc' = "stream"
          /\ UNCHANGED <<result, ti>>
    /\ UNCHANGED <<hooks, targets, client, target_download_information, clock, tick, hi,
                   response, chunks, overflow_checks>>

\* line 109: client.get(&target.url).send().await?
get ==
    /\ pc = "get"
    /\ ti <= Len(targets)
    /\ \/ /\ trace' = Append(trace, Entry("get_failed", ti, 0))
          /\ Return(TransportError("get"))
       \/ /\ trace' = Append(trace, Entry("get", ti, 0))
          /\ pc' = "stream"
          /\ UNCHANGED result
    /\ UNCHANGED <<hooks, targets, client, target_download_information, clock, tick, ti, hi,
                   response, chunks, overflow_checks>>

\* the byte lengths a chunk of a body stream can have: empty, small, and one
\* past half the range
ChunkLengths == {0, 1, U64_MAX - 1}

\* target_download_information.bytes_downloaded += u64::try_from(item?.len())?
AddBytesDownloaded(info, len) ==
    [info EXCEPT !.bytes_downloaded = WrappingAdd(@, len)]

\* target_download_information.time_elapsed = now.elapsed().as_nanos()
SetTimeElapsed(info, elapsed) ==
    [info EXCEPT !.time_elapsed = elapsed]

\* the reading now.elapsed() gives next: Instant is monotonic
Elapsed == {clock + tick}

\* lines 111-113: stream.next().await: the stream ends, fails, or delivers a
\* chunk, which is counted and timed
stream ==
    /\ pc = "stream"
    /\ \/ \* None: the body is complete, on to the next target
          /\ trace' = Append(trace, Entry("end_of_stream", ti, 0))
          /\ ti' = ti + 1
          /\ pc' = "get"
          /\ UNCHANGED <<target_download_information, clock, tick, hi, result, chunks,
                         overflow_checks>>
       \/ \* Some(Err(_)): item? fails
          /\ trace' = Append(trace, Entry("chunk_failed", ti, 0))
          /\ Return(TransportError("stream"))
          /\ UNCHANGED <<target_download_information, clock, tick, ti, hi, chunks,
                         overflow_checks>>
       \/ \* Some(Ok(item))
          /\ chunks < MaxChunks
          /\ \E len \in ChunkLengths, elapsed \in Elapsed :
                /\ trace' = Append(trace, Entry("chunk", ti, len))
                /\ chunks' = chunks + 1
                /\ \E checks \in OverflowChecks(
                                    target_download_information.bytes_downloaded, len) :
                   /\ overflow_checks' = checks
                   /\ IF checks = "on"
                      THEN /\ Return(Panic("overflow"))
                           /\ UNCHANGED <<target_download_information, clock, tick, hi>>
                      ELSE
                        /\ target_download_information' =
                               SetTimeElapsed(
                                   AddBytesDownloaded(target_download_information, len),
                                   elapsed)
                        /\ clock' = elapsed
                        /\ UNCHANGED tick
                        /\ hi' = 1
                        /\ pc' = IF Len(hooks) >= 1 THEN "on_downloading" ELSE "stream"
                        /\ UNCHANGED result
          /\ UNCHANGED ti
    /\ UNCHANGED <<hooks, targets, client, response>>

\* mutant of on_downloading: the loop stops after the first hook
on_downloading_first_only ==
    /\ pc = "on_downloading"
    /\ hi <= Len(hooks)
    /\ trace' = Append(trace, Entry("on_downloading", hooks[hi], 0))
    /\ hi' = Len(hooks) + 1
    /\ pc' = "stream"
    /\ UNCHANGED <<hooks, targets, client, target_download_information, clock, tick, ti,
                   result, response, chunks, overflow_checks>>

\* lines 115-117: on_downloading to every hook
on_downloading ==
    /\ pc = "on_downloading"
    /\ CallHook("on_downloading", "stream")
    /\ UNCHANGED <<hooks, targets, client, target_download_information, clock, tick, ti,
                   response, chunks, overflow_checks>>

\* mutant of time_elapsed: the final reading starts from zero again
time_elapsed_reset ==
    /\ pc = "get"
    /\ ti > Len(targets)
    /\ target_download_information' = SetTimeElapsed(target_download_information, 0)
    /\ clock' = 0
    /\ UNCHANGED tick
    /\ hi' = 1
    /\ pc' = "on_downloaded"
    /\ UNCHANGED <<hooks, targets, client, ti, result, response, trace, chunks,
                   overflow_checks>>

\* line 121, after the last target: time_elapsed = now.elapsed().as_nanos()
time_elapsed ==
    /\ pc = "get"
    /\ ti > Len(targets)
    /\ \E elapsed \in Elapsed :
          /\ target_download_information' =
                SetTimeElapsed(target_download_information, elapsed)
          /\ clock' = elapsed
    /\ UNCHANGED tick
    /\ hi' = 1
    /\ pc' = "on_downloaded"
    /\ UNCHANGED <<hooks, targets, client, ti, result, response, trace, chunks,
                   overflow_checks>>

\* lines 124-126: on_downloaded to every hook
on_downloaded ==
    /\ pc = "on_downloaded"
    /\ CallHook("on_downloaded", "return")
    /\ UNCHANGED <<hooks, targets, client, target_download_information, clock, tick, ti,
                   response, chunks, overflow_checks>>

\* line 128: Ok(target_download_information) (also reached with no hook)
return_ok ==
    /\ \/ pc = "return"
       \/ pc = "on_downloaded" /\ Len(hooks) = 0
    /\ Return(Ok(target_download_information))
    /\ UNCHANGED <<hooks, targets, client, target_download_information, clock, tick, ti, hi,
                   response, trace, chunks, overflow_checks>>

Next ==
    \/ add_events_hook
    \/ measure_download_speed
    \/ setup_api
    \/ json
    \/ head
    \/ on_download
    \/ now
    \/ get
    \/ stream
    \/ on_downloading
    \/ time_elapsed
    \/ on_downloaded
    \/ return_ok

Spec == Init /\ [][Next]_vars

(***************************************************************************)
(* What a run did, read off its trace.                                     *)
(***************************************************************************)
HookOps == {"on_download", "on_downloading", "on_downloaded"}

\* the positions in the trace of the entries of these kinds
Indices(kinds) == {i \in DOMAIN trace : trace[i].kind \in kinds}

\* the positions of the calls of op on hook h
Calls(h, op) == {i \in DOMAIN trace : trace[i].kind = op /\ trace[i].who = h}

\* the hooks registered when the traced run was called
RunHooks == IF trace = << >> THEN {} ELSE 1..trace[1].val

\* the traced run is over
Finished == pc = "idle" /\ trace # << >>

\* the calls of op on hook h from which the hook returned (the last call of a
\* run that a hook's panic ended did not return)
Returned(h, op) ==
    {i \in Calls(h, op) :
        ~(Finished /\ result.error.kind = "hook" /\ i = Len(trace))}

ReturnedOk == Finished /\ result.status = "ok"

\* the run is past the on_download loop of lines 102-104
PastStart ==
    \/ pc \in {"now", "get", "stream", "on_downloading", "on_downloaded", "return"}
    \/ Indices({"get", "get_failed", "on_downloading", "on_downloaded"}) # {}
    \/ ReturnedOk

\* the run failed before the on_download loop: client, discovery or probe
FailedEarly ==
    \/ Indices({"discovery_failed", "discovery_unparsable", "head_failed",
                "head_no_length"}) # {}
    \/ Finished /\ result.error.kind = "client"

\* the sum of the content lengths the HEAD responses of the run reported
RECURSIVE SumHeads(_)
SumHeads(n) ==
    IF n = 0 THEN 0
    ELSE SumHeads(n - 1) + (IF trace[n].kind = "head" THEN trace[n].val ELSE 0)

\* the sum of the lengths of the chunks the run's body streams delivered
RECURSIVE SumChunks(_)
SumChunks(n) ==
    IF n = 0 THEN 0
    ELSE SumChunks(n - 1) + (IF trace[n].kind = "chunk" THEN trace[n].val ELSE 0)

(***************************************************************************)
(* C1: every run, successful or failed, delivers on_download to every      *)
(* registered observer exactly once, before every on_downloading, with     *)
(* bytes_downloaded = 0.  As stated (C1_StartInEveryRun) it fails: a run    *)
(* that fails before line 102 delivers no on_download.  Amended             *)
(* (C1_StartOnceBeforeProgress): at most once per observer, with            *)
(* bytes_downloaded = 0 and before every on_downloading; exactly once in a  *)
(* run that got past the start notification; never in a run that failed in  *)
(* the client build, the resolve or a probe.                                *)
(***************************************************************************)
C1_StartInEveryRun ==
    Finished =>
        \A h \in RunHooks :
            /\ Cardinality(Calls(h, "on_download")) = 1
            /\ \A i \in Calls(h, "on_download") :
                  /\ trace[i].snap.bytes_downloaded = 0
                  /\ \A j \in Indices({"on_downloading"}) : i < j

C1_StartOnceBeforeProgress ==
    \A h \in RunHooks :
        /\ Cardinality(Calls(h, "on_download")) <= 1
        /\ \A i \in Calls(h, "on_download") :
              /\ trace[i].snap.bytes_downloaded = 0
              /\ \A j \in Indices({"on_downloading"}) : i < j
        /\ PastStart => Cardinality(Calls(h, "on_download")) = 1
        /\ FailedEarly => Calls(h, "on_download") = {}

\* a failed run whose two observers each got the start and then progress
C1_Witness ==
    /\ Finished
    /\ result.status = "err"
    /\ Cardinality(RunHooks) = 2
    /\ \A h \in RunHooks : Cardinality(Calls(h, "on_download")) = 1
    /\ Indices({"on_downloading"}) # {}

(***************************************************************************)
(* C2: on_downloaded reaches each registered observer exactly once, after  *)
(* the last on_downloading, and only in a run that returns Ok.             *)
(***************************************************************************)
C2_FinishedOnlyOnOk ==
    \A h \in RunHooks :
        /\ Cardinality(Calls(h, "on_downloaded")) <= 1
        /\ ReturnedOk => Cardinality(Calls(h, "on_downloaded")) = 1
        /\ (Finished /\ result.status # "ok") => Returned(h, "on_downloaded") = {}
        /\ \A i \in Calls(h, "on_downloaded") :
              \A j \in Indices({"on_downloading"}) : j < i

(***************************************************************************)
(* C3: a run that returns Ok returns bytes_downloaded = total_bytes.       *)
(***************************************************************************)
C3_BytesEqualTotal ==
    ReturnedOk => result.value.bytes_downloaded = result.value.total_bytes

(***************************************************************************)
(* C4: the snapshots of successive on_downloading calls of one observer    *)
(* never decrease in bytes_downloaded nor in time_elapsed.                 *)
(***************************************************************************)
C4_ProgressMonotonic ==
    \A h \in RunHooks :
        \A i, j \in Calls(h, "on_downloading") :
            i < j =>
                /\ trace[i].snap.bytes_downloaded <= trace[j].snap.bytes_downloaded
                /\ trace[i].snap.time_elapsed <= trace[j].snap.time_elapsed

(***************************************************************************)
(* C5: probing is all-or-nothing: once the HEAD probe of any target has    *)
(* failed or reported no content length, the run has returned an error, no *)
(* observer has received on_download and no GET has been issued.           *)
(***************************************************************************)
C5_ProbingAllOrNothing ==
    Indices({"head_failed", "head_no_length"}) # {} =>
        /\ pc = "idle"
        /\ result.status = "err"
        /\ Indices({"on_download"}) = {}
        /\ Indices({"get", "get_failed", "chunk"}) = {}

\* the probe of the second target failed after the first was probed, with an
\* observer registered
C5_Witness ==
    /\ RunHooks # {}
    /\ \E i, j \in DOMAIN trace :
          /\ trace[i].kind = "head" /\ trace[i].who = 1
          /\ trace[j].kind \in {"head_failed", "head_no_length"} /\ trace[j].who = 2

(***************************************************************************)
(* C6: every snapshot given to an observer, and the returned one, carries  *)
(* the same total_bytes: the sum of the content lengths the HEAD probes    *)
(* reported.                                                               *)
(***************************************************************************)
C6_TotalIsSumOfContentLengths ==
    /\ \A i \in Indices(HookOps) : trace[i].snap.total_bytes = SumHeads(Len(trace))
    /\ ReturnedOk => result.value.total_bytes = SumHeads(Len(trace))

(***************************************************************************)
(* C7: a run whose discovery succeeds with zero targets returns Ok with    *)
(* total_bytes = 0 and bytes_downloaded = 0, issues no HEAD and no GET,    *)
(* emits no on_downloading, and delivers on_download and then              *)
(* on_downloaded to every registered observer.                             *)
(***************************************************************************)
C7_ZeroTargets ==
    (Finished /\ \E i \in Indices({"discovery_parsed"}) : trace[i].val = 0) =>
        /\ result.status = "ok"
        /\ result.value.total_bytes = 0
        /\ result.value.bytes_downloaded = 0
        /\ Indices({"head", "head_failed", "head_no_length", "get", "get_failed"}) = {}
        /\ Indices({"on_downloading"}) = {}
        /\ \A h \in RunHooks :
              /\ Cardinality(Calls(h, "on_download")) = 1
              /\ Cardinality(Calls(h, "on_downloaded")) = 1
              /\ \A i \in Calls(h, "on_download"), j \in Calls(h, "on_downloaded") : i < j

C9_MissingLengthNamesTarget ==
    \A i \in Indices({"head_no_length"}) :
        /\ pc = "idle"
        /\ result.status = "err"
        /\ result.error.names = targets[trace[i].who].name
        /\ Indices({"on_downloading"}) = {}

\* the probe of target "B" came back without a content length
C9_Witness ==
    /\ \E i \in Indices({"head_no_length"}) : targets[trace[i].who].name = "B"
    /\ result.error.names = "B"
    /\ RunHooks # {}

(***************************************************************************)
(* C10: when the GET or the body stream of target K fails, the run returns *)
(* an error that names target K, requests no further target, and no        *)
(* observer receives on_downloaded.                                        *)
(***************************************************************************)
C10_TransferErrorNamesTarget ==
    \A i \in Indices({"get_failed", "chunk_failed"}) :
        /\ pc = "idle"
        /\ result.status = "err"
        /\ result.error.names = targets[trace[i].who].name
        /\ i = Len(trace)
        /\ Indices({"on_downloaded"}) = {}

(***************************************************************************)
(* C11: every notification is broadcast to every registered observer, in   *)
(* registration order, with the same snapshot for all of them, and the     *)
(* engine reads nothing from the network and updates no counter until the  *)
(* last observer of the notification has returned.                         *)
(***************************************************************************)
C11_BroadcastInOrder ==
    \A i \in Indices(HookOps) :
        LET h == trace[i].who IN
        \* the broadcast starts with the first registered observer
        /\ h = 1 =>
              ~(trace[i - 1].kind = trace[i].kind /\ trace[i - 1].who < Cardinality(RunHooks))
        \* observer h is called right after observer h - 1, with the same snapshot
        /\ h > 1 =>
              /\ trace[i - 1].kind = trace[i].kind
              /\ trace[i - 1].who = h - 1
              /\ trace[i - 1].snap = trace[i].snap
        \* and the broadcast goes on to observer h + 1
        /\ h < Cardinality(RunHooks) =>
              \/ /\ i < Len(trace)
                 /\ trace[i + 1].kind = trace[i].kind
                 /\ trace[i + 1].who = h + 1
              \/ /\ i = Len(trace)
                 /\ pc = trace[i].kind
                 /\ hi = h + 1
                 /\ target_download_information = trace[i].snap

(***************************************************************************)
(* C13: for every chunk a body stream delivers, whatever its size, the     *)
(* engine adds exactly the chunk's length to bytes_downloaded and emits    *)
(* exactly one on_downloading per observer with the updated snapshot: an   *)
(* observer has as many progress events as chunks were received, and its   *)
(* last progress snapshot carries the sum of the chunk lengths so far.     *)
(***************************************************************************)
C13_OneProgressPerChunk ==
    \A h \in RunHooks :
        \* as many progress events as chunks, but for a broadcast under way
        /\ Cardinality(Calls(h, "on_downloading")) =
              IF pc = "on_downloading" /\ h >= hi
              THEN Cardinality(Indices({"chunk"})) - 1
              ELSE Cardinality(Indices({"chunk"}))
        \* each carries the sum of the lengths of the chunks received before it
        /\ \A i \in Calls(h, "on_downloading") :
              trace[i].snap.bytes_downloaded = SumChunks(i)

(***************************************************************************)
(* C12: an engine can be reused.  Over any sequence of runs, each awaited  *)
(* before the next: the observers registered stay registered, in order;    *)
(* every run starts from a fresh snapshot and its total_bytes is computed  *)
(* from its own probes of its own targets; and in every run that returns   *)
(* Ok every observer sees the start once, then the progress events, then   *)
(* the finish once.                                                        *)
(***************************************************************************)
\* u64 sum of the run's probed content lengths, as line 99 computes it
RECURSIVE TotalOfHeads(_)
TotalOfHeads(n) ==
    IF n = 0 THEN 0
    ELSE IF trace[n].kind = "head"
         THEN WrappingAdd(TotalOfHeads(n - 1), trace[n].val)
         ELSE TotalOfHeads(n - 1)

C12_RunState ==
    \* the observers notified are those registered when the run was called
    /\ pc # "idle" => RunHooks = 1..Len(hooks)
    \* before the first probe the snapshot is the default one
    /\ pc \in {"setup_api", "json"} => target_download_information = Default
    /\ \A i \in Indices({"on_download"}) : trace[i].snap.bytes_downloaded = 0
    /\ ReturnedOk =>
          \* one probe per target of this run's discovery response, summed
          /\ \E d \in Indices({"discovery_parsed"}) :
                /\ trace[d].val = Len(targets)
                /\ \A t \in 1..Len(targets) :
                      Cardinality({i \in Indices({"head"}) : trace[i].who = t /\ i > d}) = 1
          /\ Cardinality(Indices({"head"})) = Len(targets)
          /\ result.value.total_bytes = TotalOfHeads(Len(trace))
          \* start, progress*, finished, the first and the last exactly once
          /\ \A h \in RunHooks :
                /\ Cardinality(Calls(h, "on_download")) = 1
                /\ Cardinality(Calls(h, "on_downloaded")) = 1
                /\ \A i \in Calls(h, "on_download"), j \in Calls(h, "on_downloading"),
                      k \in Calls(h, "on_downloaded") : i < j /\ j < k
                /\ \A i \in Calls(h, "on_download"), k \in Calls(h, "on_downloaded") :
                      i < k

C12_RunStep ==
    \* a hook once registered stays registered, at its place
    /\ Len(hooks') >= Len(hooks)
    /\ SubSeq(hooks', 1, Len(hooks)) = hooks
    \* a call of measure_download_speed starts from the default snapshot
    /\ (pc = "idle" /\ trace' # trace) =>
          /\ target_download_information' = Default
          /\ Len(trace') = 1

C12_Reuse ==
    []C12_RunState /\ [][C12_RunStep]_<<hooks, pc, trace, target_download_information>>

\* an Ok run with two observers and a chunk, none of whose counters
\* overflowed, on an engine one of whose earlier runs overflowed
C12_Witness ==
    /\ ReturnedOk
    /\ overflow_checks = "off"
    /\ SumHeads(Len(trace)) <= U64_MAX
    /\ SumChunks(Len(trace)) <= U64_MAX
    /\ Cardinality(RunHooks) = 2
    /\ Indices({"chunk"}) # {}

(***************************************************************************)
(* C14: the first failing step ends the run.  Once the discovery call, a   *)
(* probe, a GET or a chunk read has failed, measure_download_speed has     *)
(* returned the error of that step, and nothing follows the failure in the *)
(* run: no request, no read, no notification.                              *)
(***************************************************************************)
FailureKinds ==
    {"discovery_failed", "discovery_unparsable", "head_failed", "head_no_length",
     "get_failed", "chunk_failed"}

\* the error each failing step leaves through `?`
ErrorOf(kind) ==
    CASE kind \in {"discovery_failed", "discovery_unparsable"} -> "discovery"
      [] kind = "head_failed" -> "head"
      [] kind = "head_no_length" -> "content_length"
      [] kind = "get_failed" -> "get"
      [] kind = "chunk_failed" -> "stream"

C14_FirstFailureEndsRun ==
    \A i \in Indices(FailureKinds) :
        /\ i = Len(trace)
        /\ pc = "idle"
        /\ result.status = "err"
        /\ result.error.kind = ErrorOf(trace[i].kind)

\* the GET of the first of two targets failed after the observers were told
\* of the start: the second target is never requested
C14_Witness ==
    /\ Len(hooks) > 0
    /\ \E i \in Indices({"get_failed"}) :
          /\ trace[i].who < Len(targets)
          /\ Indices({"on_download"}) # {}
          /\ i = Len(trace)
    /\ result.status = "err"

(***************************************************************************)
(* C15: setup_api fails, and the run with it before any HEAD probe, when   *)
(* the discovery call fails, when the discovery response has a non-success *)
(* HTTP status, or when its body cannot be parsed; the probe loop is       *)
(* entered only after a discovery response with a success status was       *)
(* parsed.                                                                 *)
(***************************************************************************)
C15_ResolveStep ==
    \* a response with a non-success status ends the run with an error
    /\ (pc = "json" /\ response = "non_success") =>
          /\ pc' = "idle"
          /\ result'.status = "err"
          /\ Indices({"head", "head_failed", "head_no_length"}) = {}
    \* a failed call or an unparsable body ends the run with an error
    /\ (Len(trace') = Len(trace) + 1
          /\ trace'[Len(trace')].kind \in {"discovery_failed", "discovery_unparsable"}) =>
          /\ pc' = "idle"
          /\ result'.status = "err"
    \* the first probe follows a parsed response of success status
    /\ (pc # "head" /\ pc' = "head") =>
          /\ pc = "json"
          /\ response = "success"

\* every step of setup_api changes pc
C15_ResolveFailsOnBadResponse == [][C15_ResolveStep]_<<pc, response, trace, result>>

(***************************************************************************)
(* C16: the u64 byte counters never silently wrap.  When the content       *)
(* lengths probed or the chunk lengths read in a run sum past 2^64 - 1,    *)
(* the run has ended with an overflow failure; it does not go on with a    *)
(* counter reduced modulo 2^64.                                            *)
(***************************************************************************)
C16_NoSilentWrap ==
    (SumHeads(Len(trace)) > U64_MAX \/ SumChunks(Len(trace)) > U64_MAX) =>
        /\ pc = "idle"
        /\ result.status \in {"err", "panic"}
        /\ result.error.kind = "overflow"

(***************************************************************************)
(* C17: a failure inside an observer callback does not leave the           *)
(* notification: no run ends by a hook's panic, and a run never ends       *)
(* between the call of one observer and the call of the next.              *)
(***************************************************************************)
C17_HookFailureContained ==
    /\ ~(result.status = "panic" /\ result.error.kind = "hook")
    /\ \A i \in Indices(HookOps) :
          (i = Len(trace) /\ trace[i].who < Cardinality(RunHooks)) => pc # "idle"

(***************************************************************************)
(* C18: in a run that returns Ok, every snapshot handed to an observer     *)
(* (start, progress, finished) has bytes_downloaded <= total_bytes.        *)
(***************************************************************************)
C18_BytesWithinTotal ==
    ReturnedOk =>
        \A i \in Indices(HookOps) :
            trace[i].snap.bytes_downloaded <= trace[i].snap.total_bytes

(***************************************************************************)
(* C19: on success the value returned is the snapshot the observers got in *)
(* on_downloaded: the same total_bytes, the bytes_downloaded of the last   *)
(* on_downloading snapshot (0 when there was none) and a time_elapsed not  *)
(* smaller than that of the last on_downloading snapshot.                  *)
(***************************************************************************)
\* the last element of a non-empty set of trace positions
Last(S) == CHOOSE i \in S : \A j \in S : j <= i

C19_ReturnedIsFinalSnapshot ==
    ReturnedOk =>
        \A h \in RunHooks :
            LET progress == Calls(h, "on_downloading") IN
            /\ \A i \in Calls(h, "on_downloaded") : trace[i].snap = result.value
            /\ \A i \in Calls(h, "on_download") :
                  trace[i].snap.total_bytes = result.value.total_bytes
            /\ IF progress = {}
               THEN result.value.bytes_downloaded = 0
               ELSE /\ result.value.bytes_downloaded =
                          trace[Last(progress)].snap.bytes_downloaded
                    /\ result.value.total_bytes =
                          trace[Last(progress)].snap.total_bytes
                    /\ result.value.time_elapsed >=
                          trace[Last(progress)].snap.time_elapsed

\* an Ok run with two observers and a chunk, whose final reading of the
\* clock is later than the one of the last progress event
C19_Witness ==
    /\ ReturnedOk
    /\ Cardinality(RunHooks) = 2
    /\ Calls(2, "on_downloading") # {}
    /\ Calls(2, "on_downloaded") # {}
    /\ result.value.bytes_downloaded > 0
    /\ result.value.time_elapsed >
          trace[Last(Calls(2, "on_downloading"))].snap.time_elapsed

(***************************************************************************)
(* C20: a run whose requests are answered, whose streams end and whose     *)
(* callbacks return ends in exactly one of two outcomes, Ok returned       *)
(* (after resolve, probe and download, in that order) or an error          *)
(* returned; it never goes back to an earlier phase.                       *)
(***************************************************************************)
\* the phase a step of the run belongs to: resolve, probe, download, finish
Phase(kind) ==
    CASE kind \in {"measure_download_speed"} -> 0
      [] kind \in {"discovery", "discovery_failed", "discovery_unparsable",
                   "discovery_parsed"} -> 1
      [] kind \in {"head", "head_failed", "head_no_length"} -> 2
      [] kind \in {"on_download", "get", "get_failed", "chunk", "chunk_failed",
                   "end_of_stream", "on_downloading"} -> 3
      [] kind = "on_downloaded" -> 4

C20_PhaseOrder ==
    /\ \A i, j \in 1..Len(trace) : i < j => Phase(trace[i].kind) <= Phase(trace[j].kind)
    /\ ReturnedOk =>
          /\ Indices({"discovery_parsed"}) # {}
          /\ Cardinality(Indices({"head"})) = Len(targets)
          /\ Cardinality(Indices({"end_of_stream"})) = Len(targets)

C20_RunEndsOkOrErr ==
    /\ C20_PhaseOrder
    /\ (Finished /\ result.error.kind # "hook") => result.status \in {"ok", "err"}

\* every step that can be taken is eventually taken: requests are answered,
\* streams deliver or end, callbacks return or fail
FairSpec == Spec /\ WF_<<pc, trace, hooks>>(Next)

\* no run stays in a phase forever
C20_Terminates == (pc # "idle") ~> (pc = "idle")

====
